---------------------------- MODULE Spec2Model ----------------------------
(***************************************************************************)
(* The calculator of CALCULATOR/calc_script.js as a state machine.         *)
(*                                                                         *)
(* Strings are sequences of one-character strings ("12." is <<"1","2",".">>)*)
(* so that length, slice, includes and concatenation are the sequence      *)
(* operations.  The operator tokens of the script are written in ASCII:    *)
(* "+" for '+', "-" for U+2212, "*" for U+00D7, "/" for U+00F7; "null" is  *)
(* the null of `operation`.                                                *)
(*                                                                         *)
(* Numbers are JavaScript doubles.  The model holds a double as the exact  *)
(* decimal m / 10^e (or NaN) and computes only where the double arithmetic *)
(* is known to print that exact decimal: the operands are binary fractions *)
(* (exactly representable) and the exact result is a short terminating     *)
(* decimal, so the correctly rounded result's shortest round-trip text is  *)
(* the decimal itself.  Everything else is left out (Modelled).           *)
(***************************************************************************)
EXTENDS Integers, Sequences, FiniteSets, TLC

VARIABLES
    currentInput,        \* let currentInput        (line 5)
    previousInput,       \* let previousInput       (line 6)
    operation,           \* let operation           (line 7)
    shouldResetDisplay,  \* let shouldResetDisplay  (line 8)
    display,             \* display.textContent     (lines 2, 35)
    updates,             \* updateDisplay() calls made by the last intent
    sinceDivZero,        \* history: an equals gave 'Error' and only erase or
                         \* percent intents were handled since
    emitted,             \* history: updateDisplay() has been called
    script,              \* the intents of a scripted run (empty in Spec)
    pc                   \* position in the script

vars == <<currentInput, previousInput, operation, shouldResetDisplay, display,
          updates, sinceDivZero, emitted, script, pc>>

---------------------------------------------------------------------------
(* Bounds *)

\* longest entry the digit and decimal keys may extend
MaxLen == 3
\* longest text of a computed result (calculate, handlePercent)
MaxResultLen == 4
\* largest magnitude of a computed result
MaxValue == 10

\* the digit keys pressed in the free-running specification
DigitKeys == {"0", "5"}
\* all digit keys, used by the scripted runs
AllDigits == {"0", "1", "2", "3", "4", "5", "6", "7", "8", "9"}
Operators == {"+", "-", "*", "/"}
\* what display.textContent may hold before the first updateDisplay()
InitialTexts == {<<"0">>, <<>>}

---------------------------------------------------------------------------
(* Strings *)

Str0 == <<"0">>
StrError == <<"E", "r", "r", "o", "r">>
StrNaN == <<"N", "a", "N">>

IsDigit(c) == c \in AllDigits

DigitVal(c) ==
    CASE c = "0" -> 0 [] c = "1" -> 1 [] c = "2" -> 2 [] c = "3" -> 3
      [] c = "4" -> 4 [] c = "5" -> 5 [] c = "6" -> 6 [] c = "7" -> 7
      [] c = "8" -> 8 [] c = "9" -> 9

DigitChar(n) ==
    CASE n = 0 -> "0" [] n = 1 -> "1" [] n = 2 -> "2" [] n = 3 -> "3"
      [] n = 4 -> "4" [] n = 5 -> "5" [] n = 6 -> "6" [] n = 7 -> "7"
      [] n = 8 -> "8" [] n = 9 -> "9"

\* String.prototype.includes for a one-character needle
Includes(s, c) == \E i \in 1..Len(s) : s[i] = c

\* s.slice(0, -1)
SliceDropLast(s) == SubSeq(s, 1, Len(s) - 1)

RECURSIVE Pow(_, _)
Pow(b, n) == IF n = 0 THEN 1 ELSE b * Pow(b, n - 1)

Abs(n) == IF n < 0 THEN -n ELSE n

---------------------------------------------------------------------------
(* Numbers *)

NaN == [nan |-> TRUE, m |-> 0, e |-> 0]

RECURSIVE Normalize(_, _)
\* the decimal m / 10^e without trailing fraction zeros
Normalize(m, e) ==
    IF e > 0 /\ m % 10 = 0 THEN Normalize(m \div 10, e - 1)
    ELSE [nan |-> FALSE, m |-> m, e |-> e]

isNaN(x) == x.nan

\* the value is a binary fraction, so the double holds it exactly
Exact(x) == ~x.nan /\ x.m % Pow(5, x.e) = 0

IsZero(x) == ~x.nan /\ x.m = 0

RECURSIVE DigitPrefixLen(_)
\* how many leading characters of s are digits
DigitPrefixLen(s) ==
    IF s = <<>> \/ ~IsDigit(Head(s)) THEN 0 ELSE 1 + DigitPrefixLen(Tail(s))

RECURSIVE DigitsToNat(_)
DigitsToNat(s) ==
    IF s = <<>> THEN 0
    ELSE DigitsToNat(SliceDropLast(s)) * 10 + DigitVal(s[Len(s)])

\* parseFloat: the longest prefix  [+-] digits [. digits]  with a digit in it,
\* NaN when there is none (the texts of the model hold no blank and no exponent)
parseFloat(s) ==
    LET signed == s # <<>> /\ Head(s) \in {"-", "+"}
        neg == s # <<>> /\ Head(s) = "-"
        body == IF signed THEN Tail(s) ELSE s
        ni == DigitPrefixLen(body)
        rest == SubSeq(body, ni + 1, Len(body))
        nf == IF rest # <<>> /\ Head(rest) = "."
              THEN DigitPrefixLen(Tail(rest)) ELSE 0
        mag == DigitsToNat(SubSeq(body, 1, ni) \o SubSeq(rest, 2, nf + 1))
    IN  IF ni + nf = 0 THEN NaN
        ELSE Normalize(IF neg THEN -mag ELSE mag, nf)

RECURSIVE NatToDigits(_)
NatToDigits(n) ==
    IF n < 10 THEN <<DigitChar(n)>>
    ELSE NatToDigits(n \div 10) \o <<DigitChar(n % 10)>>

RECURSIVE PadLeft(_, _)
PadLeft(s, n) == IF Len(s) >= n THEN s ELSE PadLeft(<<"0">> \o s, n)

\* Number.prototype.toString for NaN and for decimals printed without exponent
NumberToString(x) ==
    IF x.nan THEN StrNaN
    ELSE LET a == Abs(x.m)
             p == Pow(10, x.e)
             sign == IF x.m < 0 THEN <<"-">> ELSE <<>>
             frac == IF x.e = 0 THEN <<>>
                     ELSE <<".">> \o PadLeft(NatToDigits(a % p), x.e)
         IN  sign \o NatToDigits(a \div p) \o frac

\* result.toString() where result is the string 'Error' or a number
toString(r) == IF r.error THEN StrError ELSE NumberToString(r.num)

---------------------------------------------------------------------------
(* Arithmetic on doubles, computed on the exact decimals.  Each operation  *)
(* returns [ok, num]: ok is FALSE where the exact result is no decimal the  *)
(* model holds (a non-terminating quotient, a magnitude beyond IntLimit).   *)

\* largest magnitude of a mantissa the model computes with
IntLimit == 1000000000

Max(a, b) == IF a >= b THEN a ELSE b

RECURSIVE Gcd(_, _)
Gcd(a, b) == IF b = 0 THEN a ELSE Gcd(b, a % b)

RECURSIVE FactorCount(_, _)
\* the multiplicity of the prime p in n > 0
FactorCount(n, p) == IF n % p = 0 THEN 1 + FactorCount(n \div p, p) ELSE 0

Outside == [ok |-> FALSE, num |-> NaN]
Inside(x) == [ok |-> TRUE, num |-> x]

\* prev + current
Plus(x, y) ==
    LET e == Max(x.e, y.e)
    IN  Inside(Normalize(x.m * Pow(10, e - x.e) + y.m * Pow(10, e - y.e), e))

\* prev - current
Minus(x, y) ==
    LET e == Max(x.e, y.e)
    IN  Inside(Normalize(x.m * Pow(10, e - x.e) - y.m * Pow(10, e - y.e), e))

\* prev * current
Times(x, y) ==
    IF x.m # 0 /\ Abs(y.m) > IntLimit \div Abs(x.m) THEN Outside
    ELSE Inside(Normalize(x.m * y.m, x.e + y.e))

\* prev / current (the script divides only by a current that is not 0)
Over(x, y) ==
    IF y.m = 0 THEN Outside ELSE
    LET num == Abs(x.m) * Pow(10, y.e)
        den == Abs(y.m) * Pow(10, x.e)
        g == Gcd(num, den)
        n == num \div g
        d == den \div g
        a == FactorCount(d, 2)
        b == FactorCount(d, 5)
        k == Max(a, b)
        neg == (x.m < 0) # (y.m < 0)
    IN  IF d # Pow(2, a) * Pow(5, b) \/ k > 9 THEN Outside
        ELSE LET f == Pow(10, k) \div d
             IN  IF n > IntLimit \div f THEN Outside
                 ELSE Inside(Normalize(IF neg THEN -(n * f) ELSE n * f, k))

Hundred == [nan |-> FALSE, m |-> 100, e |-> 0]

\* the text of a computed number is the decimal itself: JavaScript prints
\* a double below 1e-6 with an exponent, which the model does not hold
Computed(r) == r.ok /\ r.num.e <= 6

\* a computed result within the bounds: short enough and small enough
Short(r) ==
    /\ Len(NumberToString(r.num)) <= MaxResultLen
    /\ Abs(r.num.m) <= MaxValue * Pow(10, r.num.e)

---------------------------------------------------------------------------
(* The script's functions, each a function of the state record              *)
(* [currentInput, previousInput, operation, shouldResetDisplay, display,    *)
(*  updates] it reads and writes.                                           *)

\* function updateDisplay()
updateDisplay(s) ==
    [s EXCEPT !.display = s.currentInput, !.updates = @ + 1]

\* inputNumber without the replacement of a lone '0'
inputNumberKeepsZero(s, num) ==
    updateDisplay(
        IF s.shouldResetDisplay
        THEN [s EXCEPT !.currentInput = <<num>>, !.shouldResetDisplay = FALSE]
        ELSE [s EXCEPT !.currentInput = @ \o <<num>>])

\* function inputNumber(num)
inputNumber(s, num) ==
    updateDisplay(
        IF s.shouldResetDisplay
        THEN [s EXCEPT !.currentInput = <<num>>, !.shouldResetDisplay = FALSE]
        ELSE [s EXCEPT !.currentInput =
                          IF @ = Str0 THEN <<num>> ELSE @ \o <<num>>])

\* inputDecimal without the test for a decimal point already there
inputDecimalAlwaysAppends(s) ==
    updateDisplay(
        IF s.shouldResetDisplay
        THEN [s EXCEPT !.currentInput = <<"0", ".">>,
                       !.shouldResetDisplay = FALSE]
        ELSE [s EXCEPT !.currentInput = @ \o <<".">>])

\* function inputDecimal()
inputDecimal(s) ==
    updateDisplay(
        IF s.shouldResetDisplay
        THEN [s EXCEPT !.currentInput = <<"0", ".">>,
                       !.shouldResetDisplay = FALSE]
        ELSE IF ~Includes(s.currentInput, ".")
        THEN [s EXCEPT !.currentInput = @ \o <<".">>]
        ELSE s)

\* the switch with the operands of the subtraction exchanged
SwitchResultSwapped(op, prev, current) ==
    CASE op = "+" -> [error |-> FALSE, num |-> Plus(prev, current).num]
      [] op = "-" -> [error |-> FALSE, num |-> Minus(current, prev).num]
      [] op = "*" -> [error |-> FALSE, num |-> Times(prev, current).num]
      [] op = "/" -> IF IsZero(current) THEN [error |-> TRUE, num |-> NaN]
                     ELSE [error |-> FALSE, num |-> Over(prev, current).num]
      [] op = "%" -> [error |-> FALSE, num |-> Over(prev, Hundred).num]

\* the switch of calculate(): the result for a recognised operation
SwitchResult(op, prev, current) ==
    CASE op = "+" -> [error |-> FALSE, num |-> Plus(prev, current).num]
      [] op = "-" -> [error |-> FALSE, num |-> Minus(prev, current).num]
      [] op = "*" -> [error |-> FALSE, num |-> Times(prev, current).num]
      [] op = "/" -> IF IsZero(current) THEN [error |-> TRUE, num |-> NaN]
                     ELSE [error |-> FALSE, num |-> Over(prev, current).num]
      [] op = "%" -> [error |-> FALSE, num |-> Over(prev, Hundred).num]

\* calculate that leaves shouldResetDisplay as it is
calculateKeepsFlag(s) ==
    LET prev == parseFloat(s.previousInput)
        current == parseFloat(s.currentInput)
    IN  IF isNaN(prev) \/ isNaN(current) THEN s
        ELSE IF s.operation \notin {"+", "-", "*", "/", "%"} THEN s
        ELSE updateDisplay(
                 [s EXCEPT !.currentInput =
                               toString(SwitchResult(s.operation, prev, current)),
                           !.operation = "null",
                           !.previousInput = <<>>])

\* calculate without the test for operands that do not parse
calculateNoGuard(s) ==
    LET prev == parseFloat(s.previousInput)
        current == parseFloat(s.currentInput)
    IN  IF s.operation \notin {"+", "-", "*", "/", "%"} THEN s
        ELSE updateDisplay(
                 [s EXCEPT !.currentInput =
                               IF isNaN(prev) \/ isNaN(current) THEN StrNaN
                               ELSE toString(
                                        SwitchResult(s.operation, prev, current)),
                           !.operation = "null",
                           !.previousInput = <<>>,
                           !.shouldResetDisplay = TRUE])

\* calculate that leaves previousInput as it is
calculateKeepsOperand(s) ==
    LET prev == parseFloat(s.previousInput)
        current == parseFloat(s.currentInput)
    IN  IF isNaN(prev) \/ isNaN(current) THEN s
        ELSE IF s.operation \notin {"+", "-", "*", "/", "%"} THEN s
        ELSE updateDisplay(
                 [s EXCEPT !.currentInput =
                               toString(SwitchResult(s.operation, prev, current)),
                           !.operation = "null",
                           !.shouldResetDisplay = TRUE])

\* calculate that leaves operation and previousInput as they are
calculateKeepsPending(s) ==
    LET prev == parseFloat(s.previousInput)
        current == parseFloat(s.currentInput)
    IN  IF isNaN(prev) \/ isNaN(current) THEN s
        ELSE IF s.operation \notin {"+", "-", "*", "/", "%"} THEN s
        ELSE updateDisplay(
                 [s EXCEPT !.currentInput =
                               toString(SwitchResult(s.operation, prev, current)),
                           !.shouldResetDisplay = TRUE])

\* calculate without its call of updateDisplay()
calculateNoRender(s) ==
    LET prev == parseFloat(s.previousInput)
        current == parseFloat(s.currentInput)
    IN  IF isNaN(prev) \/ isNaN(current) THEN s
        ELSE IF s.operation \notin {"+", "-", "*", "/", "%"} THEN s
        ELSE [s EXCEPT !.currentInput =
                           toString(SwitchResult(s.operation, prev, current)),
                       !.operation = "null",
                       !.previousInput = <<>>,
                       !.shouldResetDisplay = TRUE]

\* function calculate()
calculate(s) ==
    LET prev == parseFloat(s.previousInput)
        current == parseFloat(s.currentInput)
    IN  IF isNaN(prev) \/ isNaN(current) THEN s
        ELSE IF s.operation \notin {"+", "-", "*", "/", "%"} THEN s
        ELSE updateDisplay(
                 [s EXCEPT !.currentInput =
                               toString(SwitchResult(s.operation, prev, current)),
                           !.operation = "null",
                           !.previousInput = <<>>,
                           !.shouldResetDisplay = TRUE])

\* handleOperation that calls updateDisplay() at its end
handleOperationRenders(s, nextOperation) ==
    LET s1 == IF s.operation # "null" /\ ~s.shouldResetDisplay
              THEN calculate(s)
              ELSE [s EXCEPT !.previousInput = s.currentInput]
    IN  updateDisplay(
            [s1 EXCEPT !.operation = nextOperation, !.shouldResetDisplay = TRUE])

\* function handleOperation(nextOperation)
handleOperation(s, nextOperation) ==
    LET s1 == IF s.operation # "null" /\ ~s.shouldResetDisplay
              THEN calculate(s)
              ELSE [s EXCEPT !.previousInput = s.currentInput]
    IN  [s1 EXCEPT !.operation = nextOperation, !.shouldResetDisplay = TRUE]

\* handlePercent that also sets shouldResetDisplay
handlePercentSetsFlag(s) ==
    LET value == parseFloat(s.currentInput)
    IN  updateDisplay(
            [s EXCEPT !.currentInput =
                          IF isNaN(value) THEN StrNaN
                          ELSE NumberToString(Over(value, Hundred).num),
                      !.shouldResetDisplay = TRUE])

\* function handlePercent()
handlePercent(s) ==
    LET value == parseFloat(s.currentInput)
    IN  updateDisplay(
            [s EXCEPT !.currentInput =
                          IF isNaN(value) THEN StrNaN
                          ELSE NumberToString(Over(value, Hundred).num)])

\* allClear that leaves shouldResetDisplay as it is
allClearKeepsFlag(s) ==
    updateDisplay([s EXCEPT !.currentInput = Str0,
                            !.previousInput = <<>>,
                            !.operation = "null"])

\* function allClear()
allClear(s) ==
    updateDisplay([s EXCEPT !.currentInput = Str0,
                            !.previousInput = <<>>,
                            !.operation = "null",
                            !.shouldResetDisplay = FALSE])

\* erase without the floor at one character
eraseNoFloor(s) ==
    updateDisplay([s EXCEPT !.currentInput = SliceDropLast(@)])

\* erase that also clears shouldResetDisplay
eraseClearsFlag(s) ==
    updateDisplay(
        IF Len(s.currentInput) > 1
        THEN [s EXCEPT !.currentInput = SliceDropLast(@),
                       !.shouldResetDisplay = FALSE]
        ELSE [s EXCEPT !.currentInput = Str0, !.shouldResetDisplay = FALSE])

\* function erase()
erase(s) ==
    updateDisplay(
        IF Len(s.currentInput) > 1
        THEN [s EXCEPT !.currentInput = SliceDropLast(@)]
        ELSE [s EXCEPT !.currentInput = Str0])

---------------------------------------------------------------------------
(* Intents: the click listeners (lines 151-173) and the keydown listener    *)
(* (lines 176-219) call the same functions with the same arguments.         *)

Intent(kind, arg) == [kind |-> kind, arg |-> arg]

\* the listeners with the percent intent wired to handleOperation('%')
HandleWiresPercent(s, i) ==
    CASE i.kind = "digit" -> inputNumber(s, i.arg)
      [] i.kind = "decimal" -> inputDecimal(s)
      [] i.kind = "operator" -> handleOperation(s, i.arg)
      [] i.kind = "equals" -> calculate(s)
      [] i.kind = "percent" -> handleOperation(s, "%")
      [] i.kind = "erase" -> erase(s)
      [] i.kind = "clear" -> allClear(s)

\* the function a listener calls for an intent
Handle(s, i) ==
    CASE i.kind = "digit" -> inputNumber(s, i.arg)
      [] i.kind = "decimal" -> inputDecimal(s)
      [] i.kind = "operator" -> handleOperation(s, i.arg)
      [] i.kind = "equals" -> calculate(s)
      [] i.kind = "percent" -> handlePercent(s)
      [] i.kind = "erase" -> erase(s)
      [] i.kind = "clear" -> allClear(s)

\* calculate() computes a number the model holds (within the bounds, if bounded)
CalcModelled(s, bounded) ==
    LET prev == parseFloat(s.previousInput)
        current == parseFloat(s.currentInput)
        r == CASE s.operation = "+" -> Plus(prev, current)
               [] s.operation = "-" -> Minus(prev, current)
               [] s.operation = "*" -> Times(prev, current)
               [] s.operation = "/" -> Over(prev, current)
               [] s.operation = "%" -> Over(prev, Hundred)
    IN  IF isNaN(prev) \/ isNaN(current) THEN TRUE
        ELSE IF s.operation \notin {"+", "-", "*", "/", "%"} THEN TRUE
        ELSE IF s.operation = "/" /\ IsZero(current) THEN TRUE
        ELSE /\ Exact(prev)
             /\ s.operation = "%" \/ Exact(current)
             /\ Computed(r)
             /\ bounded => Short(r)

\* the intent computes only numbers the model holds and, if bounded, keeps
\* the texts within the bounds
Modelled(s, i, bounded) ==
    CASE i.kind = "digit" ->
             IF s.shouldResetDisplay \/ s.currentInput = Str0 THEN TRUE
             ELSE bounded => Len(s.currentInput) < MaxLen
      [] i.kind = "decimal" ->
             IF s.shouldResetDisplay \/ Includes(s.currentInput, ".") THEN TRUE
             ELSE bounded => Len(s.currentInput) < MaxLen
      [] i.kind = "operator" ->
             IF s.operation # "null" /\ ~s.shouldResetDisplay
             THEN CalcModelled(s, bounded) ELSE TRUE
      [] i.kind = "equals" -> CalcModelled(s, bounded)
      [] i.kind = "percent" ->
             LET value == parseFloat(s.currentInput)
             IN  IF isNaN(value) THEN TRUE
                 ELSE /\ Exact(value)
                      /\ Computed(Over(value, Hundred))
                      /\ bounded => Short(Over(value, Hundred))
      [] OTHER -> TRUE

\* an equals intent that divides by zero
DividesByZero(s, i) ==
    /\ i.kind = "equals"
    /\ s.operation = "/"
    /\ ~isNaN(parseFloat(s.previousInput))
    /\ IsZero(parseFloat(s.currentInput))

---------------------------------------------------------------------------
(* Scripted runs: sequences of intents applied to the state after loading   *)

\* largest operand of a scripted binary operation
MaxOperand == 12
\* largest operand of a scripted chain of two operations
MaxChainOperand == 5
\* longest scripted sequence of digit keys
MaxDigits == 3
\* most erase and percent intents scripted between an 'Error' and a digit
MaxBetween == 2

\* the digit intents that type the non-negative integer n
TypeNat(n) ==
    LET ds == NatToDigits(n)
    IN  [k \in 1..Len(ds) |-> Intent("digit", ds[k])]

DigitScripts ==
    UNION {[1..n -> {Intent("digit", d) : d \in AllDigits}] : n \in 1..MaxDigits}

BinaryScript(a, op, b) ==
    TypeNat(a) \o <<Intent("operator", op)>> \o TypeNat(b)
        \o <<Intent("equals", "")>>

BinaryScripts ==
    {BinaryScript(a, op, b) : a \in 0..MaxOperand, op \in Operators,
                              b \in 0..MaxOperand}

ChainScript(a, op1, b, op2, c) ==
    TypeNat(a) \o <<Intent("operator", op1)>> \o TypeNat(b)
        \o <<Intent("operator", op2)>> \o TypeNat(c) \o <<Intent("equals", "")>>

ChainScripts ==
    {ChainScript(a, op1, b, op2, c) :
        a \in 0..MaxChainOperand, op1 \in Operators, b \in 0..MaxChainOperand,
        op2 \in Operators, c \in 0..MaxChainOperand}

\* entries that parse to zero
ZeroEntries ==
    {<<Intent("digit", "0")>>,
     <<Intent("digit", "0"), Intent("decimal", "")>>,
     <<Intent("digit", "0"), Intent("decimal", ""), Intent("digit", "0")>>}

Between ==
    UNION {[1..n -> {Intent("erase", ""), Intent("percent", "")}] :
              n \in 0..MaxBetween}

\* a divided by zero, then erase and percent intents, then a digit
ErrorScript(a, zero, mid, d) ==
    TypeNat(a) \o <<Intent("operator", "/")>> \o zero
        \o <<Intent("equals", "")>> \o mid \o <<Intent("digit", d)>>

\* the dividends of the scripted divisions by zero
ErrorOperands == {0, 8, 12}

ErrorScripts ==
    {ErrorScript(a, zero, mid, d) :
        a \in ErrorOperands, zero \in ZeroEntries, mid \in Between,
        d \in AllDigits}

\* a binary operation cut short anywhere by the clear intent
ClearScripts ==
    {SubSeq(BinaryScript(a, op, b), 1, n) \o <<Intent("clear", "")>> :
        a \in 0..MaxChainOperand, op \in Operators, b \in 0..MaxChainOperand,
        n \in 1..4}

\* largest entry of a scripted percent intent
MaxPercent == 50

\* the entries before a scripted percent intent: none, or an operation pending
PercentPrefixes ==
    {<<>>} \cup {<<Intent("digit", "2"), Intent("operator", op)>> :
                     op \in Operators}

\* an entry, with or without an operation pending, then the percent intent
PercentScript(prefix, n) == prefix \o TypeNat(n) \o <<Intent("percent", "")>>

PercentScripts ==
    {PercentScript(prefix, n) : prefix \in PercentPrefixes, n \in 0..MaxPercent}

\* the decimal point twice, after a digit and after an operator
DecimalTwice ==
    {<<Intent("digit", "5"), Intent("decimal", ""), Intent("decimal", "")>>,
     <<Intent("digit", "5"), Intent("operator", "+"), Intent("decimal", ""),
       Intent("decimal", "")>>}

\* "12" erased three times; 2 + 3 = erased, then a digit
EraseRuns ==
    {<<Intent("digit", "1"), Intent("digit", "2"), Intent("erase", ""),
       Intent("erase", ""), Intent("erase", "")>>,
     BinaryScript(2, "+", 3) \o <<Intent("erase", ""), Intent("digit", "7")>>}

\* equals with nothing pending; equals twice; equals on an 'Error' operand
EqualsRuns ==
    {<<Intent("digit", "5"), Intent("equals", "")>>,
     BinaryScript(2, "+", 3) \o <<Intent("equals", "")>>,
     BinaryScript(8, "/", 0)
         \o <<Intent("operator", "+"), Intent("digit", "5"),
              Intent("equals", "")>>}

\* an operator after an operator, the first one folding or not
OperatorTwice ==
    {<<Intent("digit", "5"), Intent("operator", "+"), Intent("operator", "-")>>,
     <<Intent("digit", "5"), Intent("operator", "+"), Intent("digit", "3"),
       Intent("operator", "-"), Intent("operator", "*")>>}

Scripts ==
    DigitScripts \cup BinaryScripts \cup ChainScripts \cup ErrorScripts
        \cup ClearScripts \cup PercentScripts \cup DecimalTwice
        \cup EraseRuns \cup EqualsRuns \cup OperatorTwice

---------------------------------------------------------------------------
(* The state machine: the listeners run one at a time, each to completion.  *)
(* With an empty script any intent within the bounds may come next; with a  *)
(* script the intents come in its order.                                    *)

State ==
    [currentInput |-> currentInput, previousInput |-> previousInput,
     operation |-> operation, shouldResetDisplay |-> shouldResetDisplay,
     display |-> display, updates |-> updates]

\* lines 5-8: the state after the script has loaded
InitialState(text) ==
    [currentInput |-> Str0, previousInput |-> <<>>, operation |-> "null",
     shouldResetDisplay |-> FALSE, display |-> text, updates |-> 0]

Becomes(s) ==
    /\ currentInput' = s.currentInput
    /\ previousInput' = s.previousInput
    /\ operation' = s.operation
    /\ shouldResetDisplay' = s.shouldResetDisplay
    /\ display' = s.display
    /\ updates' = s.updates

\* the variables hold the state s
Holds(s) ==
    /\ currentInput = s.currentInput
    /\ previousInput = s.previousInput
    /\ operation = s.operation
    /\ shouldResetDisplay = s.shouldResetDisplay
    /\ display = s.display
    /\ updates = s.updates

\* intent i is the next to be handled
Turn(i) ==
    /\ IF script = <<>>
       THEN Modelled(State, i, TRUE) /\ pc' = pc
       ELSE /\ pc <= Len(script)
            /\ script[pc] = i
            /\ Modelled(State, i, FALSE)
            /\ pc' = pc + 1
    /\ script' = script

\* the listener of intent i runs to completion
Dispatch(i) ==
    /\ Becomes(Handle([State EXCEPT !.updates = 0], i))
    /\ sinceDivZero' = IF DividesByZero(State, i) THEN TRUE
                       ELSE IF i.kind \in {"erase", "percent"} THEN sinceDivZero
                       ELSE FALSE
    /\ emitted' = (emitted \/ updates' >= 1)

Init ==
    /\ \E text \in InitialTexts : Holds(InitialState(text))
    /\ sinceDivZero = FALSE
    /\ emitted = FALSE
    /\ script \in Scripts \cup {<<>>}
    /\ pc = 1

\* the digit keys that may be pressed
Keys == IF script = <<>> THEN DigitKeys ELSE AllDigits

OnDigit(d) == Turn(Intent("digit", d)) /\ Dispatch(Intent("digit", d))
OnDecimal == Turn(Intent("decimal", "")) /\ Dispatch(Intent("decimal", ""))
OnOperator(op) == Turn(Intent("operator", op)) /\ Dispatch(Intent("operator", op))
OnEquals == Turn(Intent("equals", "")) /\ Dispatch(Intent("equals", ""))
OnPercent == Turn(Intent("percent", "")) /\ Dispatch(Intent("percent", ""))
OnErase == Turn(Intent("erase", "")) /\ Dispatch(Intent("erase", ""))
OnAllClear == Turn(Intent("clear", "")) /\ Dispatch(Intent("clear", ""))

Next ==
    \/ \E d \in Keys : OnDigit(d)
    \/ OnDecimal
    \/ \E op \in Operators : OnOperator(op)
    \/ OnEquals
    \/ OnPercent
    \/ OnErase
    \/ OnAllClear

Spec == Init /\ [][Next]_vars

---------------------------------------------------------------------------
(* Reading a script back: its shape and its operands *)

Kinds(sc) == [k \in 1..Len(sc) |-> sc[k].kind]
Args(sc) == [k \in 1..Len(sc) |-> sc[k].arg]

RECURSIVE Collapse(_)
\* the kinds of a script with each run of digit intents taken as one
Collapse(ks) ==
    IF Len(ks) <= 1 THEN ks
    ELSE IF ks[1] = "digit" /\ ks[2] = "digit" THEN Collapse(Tail(ks))
    ELSE <<ks[1]>> \o Collapse(Tail(ks))

IsDigitScript(sc) == Collapse(Kinds(sc)) = <<"digit">>
IsBinaryScript(sc) ==
    Collapse(Kinds(sc)) = <<"digit", "operator", "digit", "equals">>
IsChainScript(sc) ==
    Collapse(Kinds(sc))
        = <<"digit", "operator", "digit", "operator", "digit", "equals">>

\* the position of the n-th intent of the kind in the script
RECURSIVE Position(_, _, _)
Position(sc, kind, n) ==
    LET first == CHOOSE k \in 1..Len(sc) :
                     /\ sc[k].kind = kind
                     /\ \A j \in 1..(k - 1) : sc[j].kind # kind
    IN  IF n = 1 THEN first
        ELSE first + Position(SubSeq(sc, first + 1, Len(sc)), kind, n - 1)

\* the integer typed by the digit intents at positions lo..hi
Operand(sc, lo, hi) == DigitsToNat(SubSeq(Args(sc), lo, hi))

\* the decimal text of an integer
IntText(n) == IF n < 0 THEN <<"-">> \o NatToDigits(-n) ELSE NatToDigits(n)

\* the operation on integers has an integer result
IntDefined(op, x, y) == op = "/" => (y # 0 /\ x % y = 0)

IntApply(op, x, y) ==
    CASE op = "+" -> x + y
      [] op = "-" -> x - y
      [] op = "*" -> x * y
      [] op = "/" -> x \div y

RECURSIVE StripZeros(_)
\* a digit text without its redundant leading zeros
StripZeros(ds) ==
    IF Len(ds) > 1 /\ Head(ds) = "0" THEN StripZeros(Tail(ds)) ELSE ds

Finished == script # <<>> /\ pc = Len(script) + 1

---------------------------------------------------------------------------
(* Claims *)

\* C1: for a scripted chain  a op1 b op2 c =  with integer results, pressing
\* op2 folds a op1 b into previousInput (PendingOperand), and the run ends
\* with currentInput the text of (a op1 b) op2 c; 5 + 3 - 2 = gives "6".
C1_ChainedOperators ==
    IsChainScript(script) =>
        LET p1 == Position(script, "operator", 1)
            p2 == Position(script, "operator", 2)
            a == Operand(script, 1, p1 - 1)
            b == Operand(script, p1 + 1, p2 - 1)
            c == Operand(script, p2 + 1, Len(script) - 1)
            op1 == script[p1].arg
            op2 == script[p2].arg
        IN  IntDefined(op1, a, b) =>
                /\ pc = p2 + 1 => previousInput = IntText(IntApply(op1, a, b))
                /\ (Finished /\ IntDefined(op2, IntApply(op1, a, b), c)) =>
                       currentInput
                           = IntText(IntApply(op2, IntApply(op1, a, b), c))

\* C2: a scripted  a op b =  from the initial state ends with currentInput
\* the text of a op b (for "/": b # 0 and b divides a), operation null,
\* previousInput empty and shouldResetDisplay true.
C2_SingleBinaryOperation ==
    (IsBinaryScript(script) /\ Finished) =>
        LET p == Position(script, "operator", 1)
            a == Operand(script, 1, p - 1)
            b == Operand(script, p + 1, Len(script) - 1)
            op == script[p].arg
        IN  IntDefined(op, a, b) =>
                /\ currentInput = IntText(IntApply(op, a, b))
                /\ operation = "null"
                /\ previousInput = <<>>
                /\ shouldResetDisplay

\* C2 witness: 2 + 3 = has run and shows "5"
C2_Witness ==
    /\ script = BinaryScript(2, "+", 3)
    /\ Finished
    /\ currentInput = <<"5">>

\* the intents that may be handled next
NextIntents ==
    IF script = <<>>
    THEN {Intent("digit", d) : d \in DigitKeys}
             \cup {Intent("operator", op) : op \in Operators}
             \cup {Intent(k, "") : k \in {"decimal", "equals", "percent",
                                          "erase", "clear"}}
    ELSE {script[k] : k \in {pc} \cap 1..Len(script)}

\* the step handles intent i
Handles(i) == Turn(i) /\ Dispatch(i)

\* C3: an equals intent with operation "/", a previousInput that parses and
\* a currentInput that parses to zero leaves currentInput 'Error',
\* operation null, previousInput empty and shouldResetDisplay true; and the
\* next digit d, with only erase and percent intents in between, makes
\* currentInput d.
C3_DivideByZero ==
    [][/\ (OnEquals /\ DividesByZero(State, Intent("equals", ""))) =>
              /\ currentInput' = StrError
              /\ operation' = "null"
              /\ previousInput' = <<>>
              /\ shouldResetDisplay'
       /\ \A d \in AllDigits :
              (sinceDivZero /\ OnDigit(d)) =>
                  (currentInput' = <<d>> /\ ~shouldResetDisplay')]_vars

\* C3 witness: 8 / 0 = erase percent 5 has run and shows "5"
C3_Witness ==
    /\ script = ErrorScript(8, <<Intent("digit", "0")>>,
                            <<Intent("erase", ""), Intent("percent", "")>>, "5")
    /\ Finished
    /\ currentInput = <<"5">>

\* C4: between intents, operation is set if and only if previousInput is
\* not empty.
C4_OperatorIffOperand == (operation # "null") <=> (previousInput # <<>>)

\* C5 as claimed: every intent calls updateDisplay() exactly once, and the
\* text shown is currentInput at the end of the intent.
C5_OneRenderPerIntent ==
    [][\A i \in NextIntents :
           (updates' = 1 /\ display' = currentInput') \/ ~Handles(i)]_vars

\* calculate() gets past its guards
CalcRuns(s) ==
    /\ ~isNaN(parseFloat(s.previousInput))
    /\ ~isNaN(parseFloat(s.currentInput))
    /\ s.operation \in {"+", "-", "*", "/", "%"}

\* the intent emits nothing: an operator intent that folds nothing, an
\* equals intent that computes nothing
Silent(s, i) ==
    \/ i.kind = "operator"
         /\ ~(s.operation # "null" /\ ~s.shouldResetDisplay /\ CalcRuns(s))
    \/ i.kind = "equals" /\ ~CalcRuns(s)

\* C5 amended: every intent calls updateDisplay() at most once: not at all
\* when it is an operator intent that folds nothing or an equals intent
\* that computes nothing, and once otherwise; a call shows currentInput as
\* it is at the end of the intent, and without a call the display is kept.
C5_RenderPerIntent ==
    [][\A i \in NextIntents :
           \/ /\ updates' = IF Silent(State, i) THEN 0 ELSE 1
              /\ updates' = 1 => display' = currentInput'
              /\ updates' = 0 => display' = display
           \/ ~Handles(i)]_vars

\* C5 witness: an operator intent has folded 5 + 3 and shown "8", once
C5_Witness ==
    /\ script = ChainScript(5, "+", 3, "-", 2)
    /\ pc = 5
    /\ updates = 1
    /\ display = <<"8">>
    /\ operation = "-"

\* a decimal literal, possibly partial: [-] digits [. [digits]]
IsDecimalLiteral(s) ==
    LET body == IF s # <<>> /\ Head(s) = "-" THEN Tail(s) ELSE s
        ni == DigitPrefixLen(body)
        rest == SubSeq(body, ni + 1, Len(body))
    IN  /\ ni >= 1
        /\ \/ rest = <<>>
           \/ Head(rest) = "." /\ DigitPrefixLen(Tail(rest)) = Len(rest) - 1

\* C6: currentInput is always a decimal literal (possibly partial), 'Error'
\* or 'NaN'.
C6_EntryIsLiteral ==
    IsDecimalLiteral(currentInput) \/ currentInput \in {StrError, StrNaN}

\* how many decimal points the text holds
Points(s) == Cardinality({k \in 1..Len(s) : s[k] = "."})

\* C7: currentInput holds at most one decimal point.
C7_AtMostOnePoint == Points(currentInput) <= 1

\* C7 witness: an entry with a decimal point and a digit after it
C7_Witness ==
    /\ script = <<>>
    /\ currentInput = <<"0", ".", "5">>
    /\ ~shouldResetDisplay

\* C8: currentInput is never empty.
C8_NeverEmpty == Len(currentInput) >= 1

\* C8 witness: 'Error' erased down to "0"
C8_Witness ==
    /\ sinceDivZero
    /\ currentInput = Str0

\* C9: the clear intent leaves currentInput "0", previousInput empty,
\* operation null and shouldResetDisplay false, and shows "0" with one
\* call of updateDisplay(): the state after loading, with "0" shown.
C9_ClearAllResets ==
    [][OnAllClear =>
           (Holds([InitialState(Str0) EXCEPT !.updates = 1]))']_vars

\* C9 witness: 2 + 3 = then clear has run
C9_Witness ==
    /\ script = BinaryScript(2, "+", 3) \o <<Intent("clear", "")>>
    /\ Finished
    /\ currentInput = Str0

\* C10: after each intent of a scripted run of digit keys currentInput is
\* the digits typed so far without redundant leading zeros; and a digit d
\* handled with shouldResetDisplay true makes currentInput d and
\* shouldResetDisplay false.
C10_DigitEntry ==
    [][/\ (IsDigitScript(script) /\ pc' = pc + 1) =>
              currentInput' = StripZeros(SubSeq(Args(script), 1, pc))
       /\ \A d \in AllDigits :
              (shouldResetDisplay /\ OnDigit(d)) =>
                  (currentInput' = <<d>> /\ ~shouldResetDisplay')]_vars

\* C10 witness: the digits 0, 0, 5 have been typed and "5" is the entry
C10_Witness ==
    /\ script = <<Intent("digit", "0"), Intent("digit", "0"),
                  Intent("digit", "5")>>
    /\ Finished
    /\ currentInput = <<"5">>

\* the intent handled before the next one of a scripted run is of the kind
After(kind) == script # <<>> /\ pc > 1 /\ script[pc - 1].kind = kind

\* C11: the state after a decimal intent is a fixed point of inputDecimal:
\* a second decimal intent right after the first leaves currentInput,
\* previousInput, operation and shouldResetDisplay as they are; and a decimal
\* intent handled with shouldResetDisplay true makes currentInput "0." and
\* shouldResetDisplay false.
C11_DecimalIdempotent ==
    [][/\ OnDecimal =>
              LET again == inputDecimal(State')
              IN  /\ again.currentInput = currentInput'
                  /\ again.previousInput = previousInput'
                  /\ again.operation = operation'
                  /\ again.shouldResetDisplay = shouldResetDisplay'
                  /\ shouldResetDisplay =>
                         (currentInput' = <<"0", ".">> /\ ~shouldResetDisplay')
       /\ (After("decimal") /\ OnDecimal) =>
              UNCHANGED <<currentInput, previousInput, operation,
                          shouldResetDisplay>>]_vars

\* C11 witness: 5 + . . has run: the entry is "0." with 5 + pending
C11_Witness ==
    /\ script = <<Intent("digit", "5"), Intent("operator", "+"),
                  Intent("decimal", ""), Intent("decimal", "")>>
    /\ Finished
    /\ currentInput = <<"0", ".">>
    /\ previousInput = <<"5">>
    /\ ~shouldResetDisplay

\* C12: the erase intent drops the last character of a currentInput longer
\* than one character and makes any other currentInput "0"; it leaves
\* previousInput, operation and shouldResetDisplay as they are, so that a
\* digit d typed after erasing with shouldResetDisplay true makes
\* currentInput d.
C12_EraseLast ==
    [][/\ OnErase =>
              /\ currentInput' =
                     IF Len(currentInput) > 1
                     THEN SubSeq(currentInput, 1, Len(currentInput) - 1)
                     ELSE Str0
              /\ UNCHANGED <<previousInput, operation, shouldResetDisplay>>
       /\ \A d \in AllDigits :
              (After("erase") /\ shouldResetDisplay /\ OnDigit(d)) =>
                  currentInput' = <<d>>]_vars

\* C12 witness: 2 + 3 = erase 7 has run and the entry is "7"
C12_Witness ==
    /\ script = BinaryScript(2, "+", 3)
                    \o <<Intent("erase", ""), Intent("digit", "7")>>
    /\ Finished
    /\ currentInput = <<"7">>

\* the text is one or more digits
IsDigits(s) == Len(s) >= 1 /\ DigitPrefixLen(s) = Len(s)

\* the decimal text of n / 100 for a non-negative integer n
PercentText(n) ==
    LET q == n \div 100
        r == n % 100
    IN  NatToDigits(q)
            \o (IF r = 0 THEN <<>>
                ELSE IF r % 10 = 0 THEN <<".", DigitChar(r \div 10)>>
                ELSE <<".", DigitChar(r \div 10), DigitChar(r % 10)>>)

\* C13: the percent intent makes currentInput the text of
\* parseFloat(currentInput) / 100 (for an entry of digits n, the decimal
\* text of n / 100: "50" gives "0.5"; for an entry that does not parse,
\* "NaN"), shows it with one call of updateDisplay(), and leaves
\* previousInput, operation and shouldResetDisplay as they are.
C13_Percent ==
    [][OnPercent =>
           /\ UNCHANGED <<previousInput, operation, shouldResetDisplay>>
           /\ updates' = 1
           /\ display' = currentInput'
           /\ isNaN(parseFloat(currentInput)) => currentInput' = StrNaN
           /\ IsDigits(currentInput) =>
                  currentInput' = PercentText(DigitsToNat(currentInput))]_vars

\* C13 witness: 2 + 50 % has run: the entry is "0.5" with 2 + pending
C13_Witness ==
    /\ script = PercentScript(<<Intent("digit", "2"), Intent("operator", "+")>>,
                              50)
    /\ Finished
    /\ currentInput = <<"0", ".", "5">>
    /\ previousInput = <<"2">>
    /\ operation = "+"
    /\ ~shouldResetDisplay

\* C14: an equals intent handled when previousInput or currentInput does not
\* parse, or when operation is null, changes none of currentInput,
\* previousInput, operation, shouldResetDisplay and calls updateDisplay()
\* not at all.
C14_EqualsNoOp ==
    [][(/\ OnEquals
        /\ \/ isNaN(parseFloat(previousInput))
           \/ isNaN(parseFloat(currentInput))
           \/ operation = "null") =>
           /\ UNCHANGED <<currentInput, previousInput, operation,
                          shouldResetDisplay, display>>
           /\ updates' = 0]_vars

\* C14 witness: 8 / 0 = + 5 = has run: 'Error' + 5 is still pending
C14_Witness ==
    /\ script = BinaryScript(8, "/", 0)
                    \o <<Intent("operator", "+"), Intent("digit", "5"),
                         Intent("equals", "")>>
    /\ Finished
    /\ currentInput = <<"5">>
    /\ previousInput = StrError
    /\ operation = "+"
    /\ updates = 0

\* C15: after every operator intent op, folding or not, operation is op,
\* shouldResetDisplay is true and previousInput is currentInput.
C15_OperatorStoresEntry ==
    [][\A op \in Operators :
           OnOperator(op) =>
               /\ operation' = op
               /\ shouldResetDisplay'
               /\ previousInput' = currentInput']_vars

\* C16: an operator intent handled right after an operator intent changes
\* operation only: currentInput, previousInput and shouldResetDisplay stay
\* as they are and updateDisplay() is not called.
C16_OperatorAfterOperator ==
    [][\A op \in Operators :
           (After("operator") /\ OnOperator(op)) =>
               /\ UNCHANGED <<currentInput, previousInput, shouldResetDisplay>>
               /\ operation' = op
               /\ updates' = 0]_vars

\* C17: operation is null or one of the four operators, never '%'.
C17_OperatorNeverPercent == operation \in Operators \cup {"null"}

\* C17 witness: 2 * 12 % has run and * is still the operation
C17_Witness ==
    /\ script = PercentScript(<<Intent("digit", "2"), Intent("operator", "*")>>,
                              12)
    /\ Finished
    /\ operation = "*"
    /\ currentInput = <<"0", ".", "1", "2">>

\* C18: when operation is null, previousInput is empty.
C18_NoOperatorNoOperand == operation = "null" => previousInput = <<>>

\* C18 witness: 8 / 2 = has run: nothing is pending and the entry is "4"
C18_Witness ==
    /\ script = BinaryScript(8, "/", 2)
    /\ Finished
    /\ operation = "null"
    /\ previousInput = <<>>
    /\ currentInput = <<"4">>

\* C19: the state after an equals intent is a fixed point of calculate: a
\* second equals intent right after the first changes none of currentInput,
\* previousInput, operation, shouldResetDisplay, display and calls
\* updateDisplay() not at all.
C19_EqualsIdempotent ==
    [][/\ OnEquals =>
              LET after == [State EXCEPT !.updates = 0]'
              IN  calculate(after) = after
       /\ (After("equals") /\ OnEquals) =>
              /\ UNCHANGED <<currentInput, previousInput, operation,
                             shouldResetDisplay, display>>
              /\ updates' = 0]_vars

\* C19 witness: 2 + 3 = = has run and the entry is still "5"
C19_Witness ==
    /\ script = BinaryScript(2, "+", 3) \o <<Intent("equals", "")>>
    /\ Finished
    /\ currentInput = <<"5">>
    /\ display = <<"5">>
    /\ updates = 0

\* C20: once updateDisplay() has been called, the text shown is
\* currentInput between any two intents.
C20_DisplayNeverStale == emitted => display = currentInput

\* C20 witness: 5 + 3 - * has run: the first - folded and showed "8", the
\* operator after it called nothing, and "8" is still the entry shown
C20_Witness ==
    /\ script = <<Intent("digit", "5"), Intent("operator", "+"),
                  Intent("digit", "3"), Intent("operator", "-"),
                  Intent("operator", "*")>>
    /\ Finished
    /\ emitted
    /\ updates = 0
    /\ display = <<"8">>
    /\ currentInput = <<"8">>

=============================================================================
